---------------------------- MODULE Spec2Model ----------------------------
(***************************************************************************)
(* Chicago 311 chart generator (viz_chicago311.py): one run of main() over *)
(* a file-backed store.  The state is the store (file, table, schema and   *)
(* rows), the position of main(), the connection, standard output and the  *)
(* files under ./output/.  The content of a saved file is the data the     *)
(* report hands to the plotting call.                                      *)
(*                                                                         *)
(* Durations are whole hours.  The labels of the source contain an en dash *)
(* which is written "-" here.                                              *)
(***************************************************************************)
EXTENDS Integers, Sequences, FiniteSets, TLC

VARIABLES
    fileExists,   \* Path(DB_PATH).exists()
    tableExists,  \* TABLE_NAME is a table of the store
    hasCol,       \* the table has the column resolution_hours
    table,        \* the rows of TABLE_NAME, in storage order
    max_points,   \* parameter of chart_map_scatter_optional
    np_global,    \* state of the process-wide random generator at start
    run,          \* number of the current invocation of the script
    pc,           \* position of main()
    conn,         \* "none", "open" or "closed"
    opens,        \* number of sqlite3.connect calls of this invocation
    err,          \* the exception that ended this invocation, or "none"
    printed,      \* standard output of this invocation
    attempted,    \* the chart functions called by this invocation, in order
    artifacts,    \* files under ./output/: file name -> data plotted
    firstRun      \* the files as the first invocation left them

vars == <<fileExists, tableExists, hasCol, table, max_points, np_global, run,
          pc, conn, opens, err, printed, attempted, artifacts, firstRun>>

store == <<fileExists, tableExists, hasCol, table, max_points>>

-----------------------------------------------------------------------------
(* Program constants *)

Null == -1             \* SQL NULL in a numeric column (real values are >= 0)

TopTypes == 10         \* LIMIT 10
MinGroup == 50         \* HAVING n >= 50
TopAreas == 15         \* LIMIT 15
Pct == 99              \* quantile(0.99), in hundredths
DayBound == 24         \* resolution_hours <= 24
ThreeDayBound == 72    \* resolution_hours <= 72
WeekBound == 168       \* resolution_hours <= 168
DefaultMaxPoints == 5000
Seed == 42             \* random_state=42

(* Bounds of the model *)

MaxRuns == 2           \* invocations of the script
MaxEntropy == 1        \* states of the process-wide generator: 0..MaxEntropy
MaxRunBlocks == 2      \* blocks of equal rows in a table of a whole run
MaxBucketRows == 2     \* rows of a table of durations around the band ends
MaxTrimBlocks == 2     \* blocks of equal rows in a table of duration samples
MaxHeatRows == 3       \* rows of a table of days and hours
MaxAreas == 17         \* community areas of a table
MaxSampleRows == 3     \* rows of a table of located requests

F01 == "01_top_request_types.png"
F02 == "02_resolution_hist_trimmed.png"
F03 == "03_resolution_hist_log.png"
F04 == "04_resolution_buckets.png"
F05 == "05_avg_resolution_by_department.png"
F06a == "06a_top_community_areas_by_volume.png"
F06b == "06b_slowest_community_areas_by_avg_resolution.png"
F07 == "07_requests_heatmap.png"
F08 == "08_map_scatter_by_bucket.png"

SkipTypes == "Skipping top request types: query returned no rows."
SkipHistCol == "Skipping resolution histograms: resolution_hours missing."
SkipHistEmpty == "Skipping resolution histograms: no non-null resolution_hours found."
SkipBucketsCol == "Skipping resolution buckets: resolution_hours missing."
SkipBucketsEmpty == "Skipping resolution buckets: query returned no rows."
SkipDeptCol == "Skipping dept performance: resolution_hours missing."
SkipDeptEmpty == "Skipping dept performance: query returned no rows."
SkipAreaCol == "Skipping community area charts: resolution_hours missing."
SkipVolume == "Skipping volume chart: no rows returned (check community_area values)."
SkipSlowest == "Skipping slowest chart: no rows returned (check resolution_hours)."
SkipHeat == "Skipping heatmap: query returned no rows."
SkipMapCol == "Skipping map scatter: resolution_hours missing."
SkipMapEmpty == "Skipping map scatter: no lat/long rows."
WarnNoCol == "WARNING: 'resolution_hours' column not found."
DoneMsg == "Done. Check the 'output' folder for PNG charts."

-----------------------------------------------------------------------------
(* Sequences and the relational operators the queries use *)

Min(a, b) == IF a <= b THEN a ELSE b

Range(s) == {s[i] : i \in 1..Len(s)}

Reverse(s) == [i \in 1..Len(s) |-> s[Len(s) + 1 - i]]

Map(s, F(_)) == [i \in 1..Len(s) |-> F(s[i])]

Where(s, P(_)) == SelectSeq(s, P)

CountWhere(s, P(_)) == Cardinality({i \in 1..Len(s) : P(s[i])})

\* the sum of s[lo..hi], by halves
RECURSIVE SumRange(_, _, _)
SumRange(s, lo, hi) ==
    IF lo > hi THEN 0
    ELSE IF lo = hi THEN s[lo]
    ELSE LET mid == (lo + hi) \div 2
         IN  SumRange(s, lo, mid) + SumRange(s, mid + 1, hi)

SumSeq(s) == SumRange(s, 1, Len(s))

\* the distinct values of s, in order of first appearance
Distinct(s) ==
    LET First(v) == CHOOSE i \in 1..Len(s) :
                        s[i] = v /\ \A j \in 1..(i - 1) : s[j] # v
        firsts == {First(v) : v \in Range(s)}
    IN  Map(SelectSeq([i \in 1..Len(s) |-> i], LAMBDA i : i \in firsts),
            LAMBDA i : s[i])

\* ORDER BY: stable sort, a ahead of b when Before(a, b); rows that tie keep
\* the order in which the grouping produced them
OrderBy(s, Before(_, _)) ==
    LET Ahead(j, i) == \/ Before(s[j], s[i])
                       \/ (~Before(s[i], s[j]) /\ j < i)
        pos == [i \in 1..Len(s) |-> 1 + Cardinality({j \in 1..Len(s) : Ahead(j, i)})]
    IN  [p \in 1..Len(s) |-> s[CHOOSE i \in 1..Len(s) : pos[i] = p]]

Limit(s, k) == SubSeq(s, 1, Min(k, Len(s)))

-----------------------------------------------------------------------------
(* Standard output and ./output/ *)

Emit(out, kind, text) == Append(out, [kind |-> kind, text |-> text])

\* savefig: the file is written (overwriting), then "Saved: ..." is printed
SaveFile(files, f, data) == (f :> data) @@ files

SavedLine(out, f) == Emit(out, "saved", f)

Columns == IF hasCol THEN {"resolution_hours"} ELSE {}

-----------------------------------------------------------------------------
(* 1: top request types *)

\* variant: COUNT(*) without GROUP BY, which answers one row for any table
TopTypesQueryUngrouped(t) ==
    <<[sr_type |-> "Pothole", request_count |-> Len(t)]>>

TopTypesQuery(t) ==
    LET keys == Distinct(Map(t, LAMBDA r : r.sr_type))
        groups == Map(keys, LAMBDA k :
                      [sr_type |-> k,
                       request_count |-> CountWhere(t, LAMBDA r : r.sr_type = k)])
    IN  Limit(OrderBy(groups, LAMBDA a, b : a.request_count > b.request_count),
              TopTypes)

-----------------------------------------------------------------------------
(* 2a, 2b: resolution histograms *)

NonNullHours(t) ==
    Map(Where(t, LAMBDA r : r.resolution_hours # Null),
        LAMBDA r : r.resolution_hours)

\* the values of s in ascending order: position p holds the value with fewer
\* than p values below it and at least p values not above it
SortValues(s) ==
    LET vals == Range(s)
        below == [v \in vals |-> CountWhere(s, LAMBDA x : x < v)]
        upto == [v \in vals |-> CountWhere(s, LAMBDA x : x <= v)]
    IN  [p \in 1..Len(s) |-> CHOOSE v \in vals : below[v] < p /\ p <= upto[v]]

\* Series.quantile(q), linear interpolation between order statistics, as a
\* number of hundredths: the virtual index is (n - 1) * q
Quantile100(s, q) ==
    LET sorted == SortValues(s)
        n == Len(s)
        pos == (n - 1) * q
        k == pos \div 100
        frac == pos % 100
        lo == sorted[k + 1]
        hi == sorted[Min(k + 2, n)]
    IN  100 * lo + frac * (hi - lo)

\* variant: the rows equal to the percentile are dropped too
TrimBelow(s, p100) == Where(s, LAMBDA x : 100 * x < p100)

\* df[df["resolution_hours"] <= p], p in hundredths
TrimAt(s, p100) == Where(s, LAMBDA x : 100 * x <= p100)

-----------------------------------------------------------------------------
(* 3 and 7: the CASE expressions.  A comparison with NULL is not true. *)

Eq(h, b) == h # Null /\ h = b

\* variant: the upper end of a band is left out
LeStrict(h, b) == h # Null /\ h < b

Le(h, b) == h # Null /\ h <= b

Bucket5(h) ==
    IF h = Null THEN "Open"
    ELSE IF Eq(h, 0) THEN "0 hours"
    ELSE IF Le(h, DayBound) THEN "0-24 hours"
    ELSE IF Le(h, ThreeDayBound) THEN "1-3 days"
    ELSE IF Le(h, WeekBound) THEN "3-7 days"
    ELSE "7+ days"

Bucket4(h) ==
    IF h = Null THEN "Open"
    ELSE IF Eq(h, 0) THEN "0 hours"
    ELSE IF Le(h, DayBound) THEN "0-24 hours"
    ELSE IF Le(h, WeekBound) THEN "1-7 days"
    ELSE "7+ days"

BucketsQuery(t) ==
    LET keys == Distinct(Map(t, LAMBDA r : Bucket5(r.resolution_hours)))
        groups == Map(keys, LAMBDA k :
                      [resolution_bucket |-> k,
                       cnt |-> CountWhere(t, LAMBDA r :
                                          Bucket5(r.resolution_hours) = k)])
    IN  OrderBy(groups, LAMBDA a, b : a.cnt > b.cnt)

-----------------------------------------------------------------------------
(* 4: average resolution by department.  AVG is kept as the pair (sum, n). *)

AvgGreater(a, b) == a.sum_hours * b.n > b.sum_hours * a.n

DeptQuery(t) ==
    LET rows == Where(t, LAMBDA r : r.resolution_hours # Null)
        keys == Distinct(Map(rows, LAMBDA r : r.owner_department))
        groups == Map(keys, LAMBDA k :
                      LET g == Where(rows, LAMBDA r : r.owner_department = k)
                      IN  [owner_department |-> k,
                           n |-> Len(g),
                           sum_hours |-> SumSeq(Map(g, LAMBDA r : r.resolution_hours))])
    IN  OrderBy(groups, AvgGreater)

-----------------------------------------------------------------------------
(* 5a, 5b: community areas *)

AreaGroups(t) ==
    LET rows == Where(t, LAMBDA r : /\ r.resolution_hours # Null
                                    /\ r.community_area # Null)
        keys == Distinct(Map(rows, LAMBDA r : r.community_area))
    IN  Map(keys, LAMBDA k :
            LET g == Where(rows, LAMBDA r : r.community_area = k)
            IN  [community_area |-> k,
                 n |-> Len(g),
                 sum_hours |-> SumSeq(Map(g, LAMBDA r : r.resolution_hours))])

\* variant: no HAVING clause
HavingAll(groups) == groups

Having(groups) == Where(groups, LAMBDA g : g.n >= MinGroup)

VolumeQuery(t) ==
    Limit(OrderBy(Having(AreaGroups(t)), LAMBDA a, b : a.n > b.n), TopAreas)

SlowestQuery(t) ==
    Limit(OrderBy(Having(AreaGroups(t)), AvgGreater), TopAreas)

-----------------------------------------------------------------------------
(* 6: day x hour heatmap *)

HeatQuery(t) ==
    LET keys == Distinct(Map(t, LAMBDA r : <<r.created_day_of_week, r.created_hour>>))
        groups == Map(keys, LAMBDA k :
                      [created_day_of_week |-> k[1],
                       created_hour |-> k[2],
                       requests |-> CountWhere(t, LAMBDA r :
                                       /\ r.created_day_of_week = k[1]
                                       /\ r.created_hour = k[2])])
    IN  OrderBy(groups, LAMBDA a, b :
                \/ a.created_day_of_week < b.created_day_of_week
                \/ /\ a.created_day_of_week = b.created_day_of_week
                   /\ a.created_hour < b.created_hour)

NaN == Null

\* variant: the empty cells are left as they are
FillNaSkipped(v) == v

FillNa(v) == IF v = NaN THEN 0 ELSE v

\* df.pivot(index, columns, values): one row per index value and one column
\* per column value that occurs in df, both sorted; a cell without a row of df
\* is NaN
Pivot(df) ==
    LET index == SortValues(Distinct(Map(df, LAMBDA g : g.created_day_of_week)))
        columns == SortValues(Distinct(Map(df, LAMBDA g : g.created_hour)))
        Cell(d, h) ==
            LET hit == Where(df, LAMBDA g : /\ g.created_day_of_week = d
                                            /\ g.created_hour = h)
            IN  IF hit = <<>> THEN NaN ELSE hit[1].requests
    IN  [index |-> index,
         columns |-> columns,
         values |-> [i \in 1..Len(index) |->
                        [j \in 1..Len(columns) |-> Cell(index[i], columns[j])]]]

\* .fillna(0).sort_index(): the index of a pivot is sorted already
Heat(df) ==
    LET pv == Pivot(df)
    IN  [pv EXCEPT !.values =
            [i \in 1..Len(pv.index) |->
                [j \in 1..Len(pv.columns) |-> FillNa(pv.values[i][j])]]]

-----------------------------------------------------------------------------
(* 7: scatter of the located requests *)

\* the frame of the query, its rows labelled by position as pandas labels them
GeoQuery(t) ==
    LET rows == Where(t, LAMBDA r : r.latitude # Null /\ r.longitude # Null)
    IN  [i \in 1..Len(rows) |->
            [idx |-> i - 1,
             latitude |-> rows[i].latitude,
             longitude |-> rows[i].longitude,
             bucket |-> Bucket4(rows[i].resolution_hours)]]

\* One step of the generator and its draw below a bound.  The generator of
\* the library is replaced by a small linear congruential one.
NextRand(s) == (5 * s + 3) % 64

Draw(s, bound) == (s \div 4) % bound

\* permutation: x[i] is swapped with x[j], j drawn from 1..i, for i from the
\* last position down to the second
RECURSIVE Shuffle(_, _, _)
Shuffle(x, i, s) ==
    IF i < 2 THEN x
    ELSE LET s1 == NextRand(s)
             j == 1 + Draw(s1, i)
             y == [x EXCEPT ![i] = x[j], ![j] = x[i]]
         IN  Shuffle(y, i - 1, s1)

\* variant: no random_state, the process-wide generator is used
SampleStateGlobal == np_global

\* the state the sampling generator starts from: RandomState(42)
SampleState == Seed

\* df.sample(n, random_state=42): the first n positions of a permutation of
\* the rows
Sample(df, n) ==
    LET perm == Shuffle([i \in 1..Len(df) |-> i], Len(df), SampleState)
    IN  [k \in 1..n |-> df[perm[k]]]

MapFrame(t, cap) ==
    LET df == GeoQuery(t)
    IN  IF Len(df) > cap THEN Sample(df, cap) ELSE df

\* one scatter call per label of df["bucket"].unique()
ScatterGroups(df) ==
    Map(Distinct(Map(df, LAMBDA r : r.bucket)), LAMBDA b :
        [label |-> b, points |-> Where(df, LAMBDA r : r.bucket = b)])

-----------------------------------------------------------------------------
(* main() *)

\* variant: the column is taken to be there
MissingColUnchecked == FALSE

\* "resolution_hours" not in cols, cols read with PRAGMA table_info
MissingCol == "resolution_hours" \notin Columns

\* variant: the advisory ends the reports
ReturnEndsReports(next) == "leave"

\* the return after an advisory: main goes on with its next statement
Return(next) == next

\* sqlite3.Connection.__exit__ ends the transaction (commit, or rollback on an
\* exception); it leaves the connection as it is
WithExit(c) == c

ConnectDb ==
    /\ pc = "start"
    /\ IF ~fileExists
       THEN /\ err' = "FileNotFoundError"
            /\ pc' = "failed"
            /\ UNCHANGED <<conn, opens>>
       ELSE /\ conn' = "open"
            /\ opens' = opens + 1
            /\ pc' = "probe"
            /\ err' = err
    /\ UNCHANGED <<store, np_global, run, printed, attempted, artifacts, firstRun>>

\* variant: a missing table is reported like a missing column
EnsureTableAndColumnsLenient ==
    /\ pc = "probe"
    /\ printed' = IF ~tableExists \/ ~hasCol THEN Emit(printed, "warn", WarnNoCol)
                  ELSE printed
    /\ pc' = "r1"
    /\ UNCHANGED <<store, np_global, run, opens, attempted, artifacts, firstRun,
                   err, conn>>

EnsureTableAndColumns ==
    /\ pc = "probe"
    /\ IF ~tableExists
       THEN /\ err' = "ValueError"
            /\ conn' = WithExit(conn)
            /\ pc' = "failed"
            /\ printed' = printed
       ELSE /\ printed' = IF MissingCol THEN Emit(printed, "warn", WarnNoCol)
                          ELSE printed
            /\ pc' = "r1"
            /\ UNCHANGED <<err, conn>>
    /\ UNCHANGED <<store, np_global, run, opens, attempted, artifacts, firstRun>>

ChartTopRequestTypes ==
    /\ pc = "r1"
    /\ attempted' = Append(attempted, "chart_top_request_types")
    /\ LET df == TopTypesQuery(table)
       IN  IF df = <<>>
           THEN /\ printed' = Emit(printed, "skip", SkipTypes)
                /\ pc' = Return("r2")
                /\ artifacts' = artifacts
           ELSE /\ artifacts' = SaveFile(artifacts, F01, Reverse(df))
                /\ printed' = SavedLine(printed, F01)
                /\ pc' = "r2"
    /\ UNCHANGED <<store, np_global, run, conn, opens, err, firstRun>>

ChartResolutionHistograms ==
    /\ pc = "r2"
    /\ attempted' = Append(attempted, "chart_resolution_histograms")
    /\ IF MissingCol
       THEN /\ printed' = Emit(printed, "skip", SkipHistCol)
            /\ pc' = Return("r3")
            /\ artifacts' = artifacts
       ELSE LET df == NonNullHours(table)
            IN  IF df = <<>>
                THEN /\ printed' = Emit(printed, "skip", SkipHistEmpty)
                     /\ pc' = Return("r3")
                     /\ artifacts' = artifacts
                ELSE LET p99 == Quantile100(df, Pct)
                         df_trim == TrimAt(df, p99)
                     IN  /\ artifacts' = SaveFile(SaveFile(artifacts, F02, df_trim),
                                                  F03, df)
                         /\ printed' = SavedLine(SavedLine(printed, F02), F03)
                         /\ pc' = "r3"
    /\ UNCHANGED <<store, np_global, run, conn, opens, err, firstRun>>

ChartResolutionBuckets ==
    /\ pc = "r3"
    /\ attempted' = Append(attempted, "chart_resolution_buckets")
    /\ IF MissingCol
       THEN /\ printed' = Emit(printed, "skip", SkipBucketsCol)
            /\ pc' = Return("r4")
            /\ artifacts' = artifacts
       ELSE LET df == BucketsQuery(table)
            IN  IF df = <<>>
                THEN /\ printed' = Emit(printed, "skip", SkipBucketsEmpty)
                     /\ pc' = Return("r4")
                     /\ artifacts' = artifacts
                ELSE /\ artifacts' = SaveFile(artifacts, F04, df)
                     /\ printed' = SavedLine(printed, F04)
                     /\ pc' = "r4"
    /\ UNCHANGED <<store, np_global, run, conn, opens, err, firstRun>>

ChartAvgResolutionByDepartment ==
    /\ pc = "r4"
    /\ attempted' = Append(attempted, "chart_avg_resolution_by_department")
    /\ IF MissingCol
       THEN /\ printed' = Emit(printed, "skip", SkipDeptCol)
            /\ pc' = Return("r5")
            /\ artifacts' = artifacts
       ELSE LET df == DeptQuery(table)
            IN  IF df = <<>>
                THEN /\ printed' = Emit(printed, "skip", SkipDeptEmpty)
                     /\ pc' = Return("r5")
                     /\ artifacts' = artifacts
                ELSE /\ artifacts' = SaveFile(artifacts, F05, Reverse(df))
                     /\ printed' = SavedLine(printed, F05)
                     /\ pc' = "r5"
    /\ UNCHANGED <<store, np_global, run, conn, opens, err, firstRun>>

ChartCommunityAreaVolumeAndSpeed ==
    /\ pc = "r5"
    /\ attempted' = Append(attempted, "chart_community_area_volume_and_speed")
    /\ IF MissingCol
       THEN /\ printed' = Emit(printed, "skip", SkipAreaCol)
            /\ pc' = Return("r6")
            /\ artifacts' = artifacts
       ELSE LET df_vol == VolumeQuery(table)
                df_slow == SlowestQuery(table)
                files1 == IF df_vol # <<>> THEN SaveFile(artifacts, F06a, df_vol)
                          ELSE artifacts
                out1 == IF df_vol # <<>> THEN SavedLine(printed, F06a)
                        ELSE Emit(printed, "skip", SkipVolume)
            IN  /\ artifacts' = IF df_slow # <<>> THEN SaveFile(files1, F06b, df_slow)
                                ELSE files1
                /\ printed' = IF df_slow # <<>> THEN SavedLine(out1, F06b)
                              ELSE Emit(out1, "skip", SkipSlowest)
                /\ pc' = "r6"
    /\ UNCHANGED <<store, np_global, run, conn, opens, err, firstRun>>

ChartRequestsHeatmap ==
    /\ pc = "r6"
    /\ attempted' = Append(attempted, "chart_requests_heatmap")
    /\ LET df == HeatQuery(table)
       IN  IF df = <<>>
           THEN /\ printed' = Emit(printed, "skip", SkipHeat)
                /\ pc' = Return("r7")
                /\ artifacts' = artifacts
           ELSE /\ artifacts' = SaveFile(artifacts, F07, Heat(df))
                /\ printed' = SavedLine(printed, F07)
                /\ pc' = "r7"
    /\ UNCHANGED <<store, np_global, run, conn, opens, err, firstRun>>

ChartMapScatterOptional ==
    /\ pc = "r7"
    /\ attempted' = Append(attempted, "chart_map_scatter_optional")
    /\ IF MissingCol
       THEN /\ printed' = Emit(printed, "skip", SkipMapCol)
            /\ pc' = Return("leave")
            /\ artifacts' = artifacts
       ELSE IF GeoQuery(table) = <<>>
            THEN /\ printed' = Emit(printed, "skip", SkipMapEmpty)
                 /\ pc' = Return("leave")
                 /\ artifacts' = artifacts
            ELSE LET df == MapFrame(table, max_points)
                 IN  /\ artifacts' = SaveFile(artifacts, F08,
                                              [rows |-> df, series |-> ScatterGroups(df)])
                     /\ printed' = SavedLine(printed, F08)
                     /\ pc' = "leave"
    /\ UNCHANGED <<store, np_global, run, conn, opens, err, firstRun>>

\* the with block is left and the closing line is printed
LeaveMain ==
    /\ pc = "leave"
    /\ conn' = WithExit(conn)
    /\ printed' = Emit(printed, "done", DoneMsg)
    /\ pc' = "done"
    /\ UNCHANGED <<store, np_global, run, opens, err, attempted, artifacts, firstRun>>

\* the script is started again over the same store and the same ./output/
Rerun ==
    /\ pc \in {"done", "failed"}
    /\ run < MaxRuns
    /\ run' = run + 1
    /\ firstRun' = IF run = 1 THEN artifacts ELSE firstRun
    /\ np_global' \in 0..MaxEntropy
    /\ pc' = "start"
    /\ conn' = "none"
    /\ opens' = 0
    /\ err' = "none"
    /\ printed' = <<>>
    /\ attempted' = <<>>
    /\ UNCHANGED <<store, artifacts>>

Main ==
    \/ ConnectDb
    \/ EnsureTableAndColumns
    \/ ChartTopRequestTypes
    \/ ChartResolutionHistograms
    \/ ChartResolutionBuckets
    \/ ChartAvgResolutionByDepartment
    \/ ChartCommunityAreaVolumeAndSpeed
    \/ ChartRequestsHeatmap
    \/ ChartMapScatterOptional
    \/ LeaveMain

Next == Main

NextAgain == Main \/ Rerun

-----------------------------------------------------------------------------
(* Stores *)

BaseRow ==
    [sr_type |-> "Pothole", owner_department |-> "CDOT", community_area |-> 1,
     created_day_of_week |-> 1, created_hour |-> 0,
     latitude |-> 41, longitude |-> 87, resolution_hours |-> 5]

Repeat(r, n) == [i \in 1..n |-> r]

\* the tables made of at most k of the blocks B
RECURSIVE TablesOf(_, _)
TablesOf(B, k) ==
    IF k = 0 THEN {<<>>}
    ELSE LET T == TablesOf(B, k - 1)
         IN  T \cup {t \o b : t \in T, b \in B}

\* a table without the column holds no durations
WithoutCol(t) == Map(t, LAMBDA r : [r EXCEPT !.resolution_hours = Null])

InitProcess ==
    /\ np_global \in 0..MaxEntropy
    /\ run = 1
    /\ pc = "start"
    /\ conn = "none"
    /\ opens = 0
    /\ err = "none"
    /\ printed = <<>>
    /\ attempted = <<>>
    /\ artifacts = <<>>
    /\ firstRun = <<>>

InitStore(Tables, Caps, Cols) ==
    /\ max_points \in Caps
    /\ fileExists \in BOOLEAN
    /\ tableExists \in BOOLEAN
    /\ hasCol \in Cols
    /\ table \in Tables
    /\ ~fileExists => ~tableExists
    /\ ~tableExists => (~hasCol /\ table = <<>>)
    /\ ~hasCol => table = WithoutCol(table)

\* whole runs: stores with and without file, table, column and rows
RunRows ==
    {[BaseRow EXCEPT !.resolution_hours = h, !.community_area = a, !.latitude = g] :
        h \in {Null, 5}, a \in {Null, 1}, g \in {Null, 41}}

RunTables ==
    TablesOf({Repeat(r, n) : r \in RunRows, n \in {1, MinGroup}}, MaxRunBlocks)

\* durations on and around the ends of the bands
BucketRows ==
    {[BaseRow EXCEPT !.resolution_hours = h] :
        h \in {Null, 0, 1, DayBound - 1, DayBound, DayBound + 1,
               ThreeDayBound - 1, ThreeDayBound, ThreeDayBound + 1,
               WeekBound - 1, WeekBound, WeekBound + 1}}

BucketTables == TablesOf({<<r>> : r \in BucketRows}, MaxBucketRows)

\* samples of durations, small and of more than a hundred values
TrimRows == {[BaseRow EXCEPT !.resolution_hours = h] : h \in {Null, 0, 10, 1000}}

TrimTables ==
    TablesOf({Repeat(r, n) : r \in TrimRows, n \in {1, 100}}, MaxTrimBlocks)

\* requests on the first and the last day and hour
HeatRows ==
    {[BaseRow EXCEPT !.created_day_of_week = d, !.created_hour = h] :
        d \in {1, 7}, h \in {0, 23}}

HeatTables == TablesOf({<<r>> : r \in HeatRows}, MaxHeatRows)

\* k community areas.  Area i has MinGroup + (i * step) % 3 closed requests,
\* one less when i <= short, with durations that vary with i, and one open
\* request.  lost is a block of closed requests that have no area, or empty.
AreaBlock(i, short, step) ==
    Repeat([BaseRow EXCEPT !.community_area = i,
                           !.resolution_hours = ((7 * i) + step) % 5],
           (MinGroup + ((i * step) % 3)) - (IF i <= short THEN 1 ELSE 0))
    \o <<[BaseRow EXCEPT !.community_area = i, !.resolution_hours = Null]>>

RECURSIVE AreaTable(_, _, _)
AreaTable(k, short, step) ==
    IF k = 0 THEN <<>>
    ELSE AreaTable(k - 1, short, step) \o AreaBlock(k, short, step)

AreaTables ==
    {AreaTable(k, short, step) \o lost :
        k \in 0..MaxAreas, short \in {0, 1, 3}, step \in 0..2,
        lost \in {<<>>, Repeat([BaseRow EXCEPT !.community_area = Null], MinGroup)}}

\* a few requests, located or not
SampleRows ==
    {[BaseRow EXCEPT !.latitude = g, !.resolution_hours = h] :
        g \in {Null, 41}, h \in {5, 200}}

SampleTables == TablesOf({<<r>> : r \in SampleRows}, MaxSampleRows)

Init == InitProcess /\ InitStore(RunTables, {DefaultMaxPoints}, BOOLEAN)

Spec == Init /\ [][Next]_vars

InitBuckets == InitProcess /\ InitStore(BucketTables, {DefaultMaxPoints}, {TRUE})

SpecBuckets == InitBuckets /\ [][Next]_vars

InitTrim == InitProcess /\ InitStore(TrimTables, {DefaultMaxPoints}, {TRUE})

SpecTrim == InitTrim /\ [][Next]_vars

InitHeat == InitProcess /\ InitStore(HeatTables, {DefaultMaxPoints}, BOOLEAN)

SpecHeat == InitHeat /\ [][Next]_vars

InitAreas == InitProcess /\ InitStore(AreaTables, {DefaultMaxPoints}, {TRUE})

SpecAreas == InitAreas /\ [][Next]_vars

InitSample == InitProcess /\ InitStore(SampleTables, {1, 2, DefaultMaxPoints}, {TRUE})

SpecSample == InitSample /\ [][NextAgain]_vars

-----------------------------------------------------------------------------
(* Whole runs *)

Order ==
    <<"chart_top_request_types", "chart_resolution_histograms",
      "chart_resolution_buckets", "chart_avg_resolution_by_department",
      "chart_community_area_volume_and_speed", "chart_requests_heatmap",
      "chart_map_scatter_optional">>

Files == {F01, F02, F03, F04, F05, F06a, F06b, F07, F08}

ReportOf(f) ==
    IF f = F01 THEN Order[1]
    ELSE IF f \in {F02, F03} THEN Order[2]
    ELSE IF f = F04 THEN Order[3]
    ELSE IF f = F05 THEN Order[4]
    ELSE IF f \in {F06a, F06b} THEN Order[5]
    ELSE IF f = F07 THEN Order[6]
    ELSE Order[7]

IsPrefix(a, b) == Len(a) <= Len(b) /\ a = SubSeq(b, 1, Len(a))

Lines(kind) == {printed[i].text : i \in {j \in 1..Len(printed) : printed[j].kind = kind}}

SavedNow == Lines("saved")

Advisories == Lines("skip")

ProbePassed == fileExists /\ tableExists

SomeClosed == \E i \in 1..Len(table) : table[i].resolution_hours # Null

SomeLocated ==
    \E i \in 1..Len(table) : table[i].latitude # Null /\ table[i].longitude # Null

SomeBigArea ==
    \E a \in {table[i].community_area : i \in 1..Len(table)} \ {Null} :
        Cardinality({i \in 1..Len(table) : /\ table[i].community_area = a
                                           /\ table[i].resolution_hours # Null})
            >= MinGroup

\* whether a report has data to plot: a condition on the store alone
HasData(f) ==
    IF f \in {F01, F07} THEN table # <<>>
    ELSE IF f = F04 THEN hasCol /\ table # <<>>
    ELSE IF f \in {F02, F03, F05} THEN hasCol /\ SomeClosed
    ELSE IF f \in {F06a, F06b} THEN hasCol /\ SomeBigArea
    ELSE hasCol /\ SomeLocated

\* C2: once the probe has passed, the chart functions are called once each in
\* the fixed order, the run ends only after the last of them, and whether a
\* report saves its file depends on the store alone, not on what the reports
\* before it did
C2_FixedOrderIndependent ==
    /\ IsPrefix(attempted, Order)
    /\ (ProbePassed /\ pc \in {"done", "failed", "leave"}) => attempted = Order
    /\ ProbePassed => pc # "failed"
    /\ \A f \in Files :
          f \in SavedNow <=> (HasData(f) /\ ReportOf(f) \in Range(attempted))
    /\ \A f \in SavedNow : f \in DOMAIN artifacts

\* a run where a report was skipped and a later one saved its file
C2_Witness ==
    /\ pc = "done"
    /\ \E i, j \in 1..Len(printed) :
          i < j /\ printed[i].kind = "skip" /\ printed[j].kind = "saved"

\* C3: without the column resolution_hours the probe warns and goes on,
\* reports 2a, 2b, 3, 4, 5a, 5b and 7 print their advisory and save nothing,
\* and reports 1 and 6 save their files when the table has rows
C3_MissingColumnDegrades ==
    (ProbePassed /\ ~hasCol) =>
        /\ pc # "failed" /\ err = "none"
        /\ SavedNow \cap {F02, F03, F04, F05, F06a, F06b, F08} = {}
        /\ pc \notin {"start", "probe"} =>
              \E i \in 1..Len(printed) : printed[i].kind = "warn"
        /\ pc = "done" =>
              /\ {SkipHistCol, SkipBucketsCol, SkipDeptCol, SkipAreaCol, SkipMapCol}
                    \subseteq Advisories
              /\ table # <<>> => SavedNow = {F01, F07}

C3_Witness == pc = "done" /\ ProbePassed /\ ~hasCol /\ table # <<>>

\* C4: over a table without rows every report prints an advisory, nothing is
\* saved, and the run ends at its last line without an exception
C4_EmptyTableSkipsAll ==
    (ProbePassed /\ table = <<>>) =>
        /\ pc # "failed" /\ err = "none"
        /\ SavedNow = {}
        /\ pc = "done" =>
              /\ attempted = Order
              /\ printed[Len(printed)].kind = "done"
              /\ Advisories =
                    IF hasCol
                    THEN {SkipTypes, SkipHistEmpty, SkipBucketsEmpty, SkipDeptEmpty,
                          SkipVolume, SkipSlowest, SkipHeat, SkipMapEmpty}
                    ELSE {SkipTypes, SkipHistCol, SkipBucketsCol, SkipDeptCol,
                          SkipAreaCol, SkipHeat, SkipMapCol}

C4_Witness == pc = "done" /\ ProbePassed /\ table = <<>> /\ hasCol

\* C8: a missing store file or a missing table ends the run with an exception
\* before any chart function is called, nothing is printed by a report and
\* nothing is saved; nothing else ends the run with an exception
C8_TwoFatalConditions ==
    /\ pc = "failed" <=> \/ (~fileExists /\ pc # "start")
                         \/ (fileExists /\ ~tableExists /\ pc \notin {"start", "probe"})
    /\ pc = "failed" =>
          /\ attempted = <<>>
          /\ printed = <<>>
          /\ artifacts = <<>>
          /\ err = IF fileExists THEN "ValueError" ELSE "FileNotFoundError"
    /\ pc # "failed" => err = "none"

C8_Witness == pc = "failed" /\ fileExists /\ ~tableExists

\* C9: the connection is opened once and is closed when the run has ended,
\* whether main reached its last line or the probe raised
C9_ConnectionClosedAtEnd ==
    (fileExists /\ pc \in {"done", "failed"}) => (opens = 1 /\ conn = "closed")

-----------------------------------------------------------------------------
(* The tables the reports build *)

Closed == SelectSeq(table, LAMBDA r : r.resolution_hours # Null)

Located == SelectSeq(table, LAMBDA r : r.latitude # Null /\ r.longitude # Null)

RowsWhere(P(_)) == Cardinality({i \in 1..Len(table) : P(table[i])})

\* the bands of the two label schemes: above the lower end, up to the upper
InBand5(h, label) ==
    IF label = "Open" THEN h = Null
    ELSE IF label = "0 hours" THEN h = 0
    ELSE IF label = "0-24 hours" THEN 0 < h /\ h <= 24
    ELSE IF label = "1-3 days" THEN 24 < h /\ h <= 72
    ELSE IF label = "3-7 days" THEN 72 < h /\ h <= 168
    ELSE label = "7+ days" /\ 168 < h

InBand4(h, label) ==
    IF label = "Open" THEN h = Null
    ELSE IF label = "0 hours" THEN h = 0
    ELSE IF label = "0-24 hours" THEN 0 < h /\ h <= 24
    ELSE IF label = "1-7 days" THEN 24 < h /\ h <= 168
    ELSE label = "7+ days" /\ 168 < h

Labels5 == {"Open", "0 hours", "0-24 hours", "1-3 days", "3-7 days", "7+ days"}

Labels4 == {"Open", "0 hours", "0-24 hours", "1-7 days", "7+ days"}

\* C5: every duration (null, 0 or positive) is counted by report 3 under the
\* one label of the 5-way scheme whose band holds it and is plotted by report
\* 7 under the one label of the 4-way scheme whose band holds it, the upper
\* end of a band belonging to the band
C5_BucketsTotalInclusive ==
    /\ F04 \in SavedNow =>
          LET out == artifacts[F04]
          IN  /\ \A k \in 1..Len(out) :
                    /\ out[k].resolution_bucket \in Labels5
                    /\ out[k].cnt > 0
                    /\ \A l \in 1..Len(out) :
                          out[l].resolution_bucket = out[k].resolution_bucket => l = k
              /\ \A label \in Labels5 :
                    LET rows == RowsWhere(LAMBDA r : InBand5(r.resolution_hours, label))
                    IN  IF rows = 0
                        THEN \A k \in 1..Len(out) : out[k].resolution_bucket # label
                        ELSE \E k \in 1..Len(out) :
                                /\ out[k].resolution_bucket = label
                                /\ out[k].cnt = rows
    /\ F08 \in SavedNow =>
          LET rows == artifacts[F08].rows
          IN  /\ Len(rows) = Len(Located)
              /\ \A k \in 1..Len(rows) :
                    /\ rows[k].bucket \in Labels4
                    /\ \A label \in Labels4 :
                          InBand4(Located[rows[k].idx + 1].resolution_hours, label)
                              <=> label = rows[k].bucket

\* a run over durations on the upper end of a band has saved both reports
C5_Witness ==
    /\ pc = "done"
    /\ {F04, F08} \subseteq SavedNow
    /\ \E i \in 1..Len(table) : table[i].resolution_hours \in {24, 72, 168}

\* the number of durations report 2a leaves out
TrimmedAway == Len(artifacts[F03]) - Len(artifacts[F02])

\* C7: report 2a plots exactly the non-null durations that are not above
\* their 99th percentile, report 2b plots them all, and trimming the trimmed
\* durations again at their own 100th percentile removes nothing
C7_TrimAtPercentile ==
    F02 \in SavedNow =>
        LET S == Map(Closed, LAMBDA r : r.resolution_hours)
            T == artifacts[F02]
            p == Quantile100(S, 99)
        IN  /\ artifacts[F03] = S
            /\ T = SelectSeq(S, LAMBDA x : 100 * x <= p)
            /\ T # <<>>
            /\ 100 * (Len(S) - Len(T)) <= (Len(S) - 1) + 99
            /\ TrimAt(T, Quantile100(T, 100)) = T

\* a sample of more than a hundred durations has lost its largest value
C7_Witness ==
    /\ pc = "done"
    /\ F02 \in SavedNow
    /\ Len(artifacts[F03]) > 100
    /\ TrimmedAway > 0

DaysPresent == {table[i].created_day_of_week : i \in 1..Len(table)}

HoursPresent == {table[i].created_hour : i \in 1..Len(table)}

Ascending(s) == \A i, j \in 1..Len(s) : i < j => s[i] < s[j]

GridCounts(g) ==
    \A i \in 1..Len(g.index) : \A j \in 1..Len(g.columns) :
        g.values[i][j] = RowsWhere(LAMBDA r : /\ r.created_day_of_week = g.index[i]
                                              /\ r.created_hour = g.columns[j])

ClosedIn(a) ==
    SelectSeq(table, LAMBDA r : r.community_area = a /\ r.resolution_hours # Null)

AreaRowsOk(out) ==
    /\ Len(out) <= 15
    /\ \A k \in 1..Len(out) :
          /\ out[k].community_area # Null
          /\ out[k].n >= 50
          /\ out[k].n = Len(ClosedIn(out[k].community_area))
          /\ out[k].sum_hours =
                SumSeq(Map(ClosedIn(out[k].community_area), LAMBDA r : r.resolution_hours))
          /\ \A l \in 1..Len(out) :
                out[l].community_area = out[k].community_area => l = k

\* C6: reports 5a and 5b show no community area with fewer than 50 closed
\* requests, no group without an area, and at most 15 areas; 5a is in
\* descending order of the count, 5b in descending order of the mean duration
C6_AreaGroupsFiltered ==
    /\ F06a \in SavedNow =>
          LET out == artifacts[F06a]
          IN  /\ AreaRowsOk(out)
              /\ \A k \in 1..(Len(out) - 1) : out[k].n >= out[k + 1].n
    /\ F06b \in SavedNow =>
          LET out == artifacts[F06b]
          IN  /\ AreaRowsOk(out)
              /\ \A k \in 1..(Len(out) - 1) :
                    out[k].sum_hours * out[k + 1].n >= out[k + 1].sum_hours * out[k].n

\* 15 areas are shown while an area is short of 50 closed requests and some
\* closed requests have no area
C6_Witness ==
    /\ pc = "done"
    /\ {F06a, F06b} \subseteq SavedNow
    /\ Len(artifacts[F06a]) = 15
    /\ \E i \in 1..Len(table) :
          /\ table[i].community_area # Null
          /\ Len(ClosedIn(table[i].community_area)) \in 1..49
    /\ \E i \in 1..Len(table) : table[i].community_area = Null

\* C10: report 7 plots max_points distinct located requests when there are
\* more than max_points of them and all of them otherwise, and a second run
\* over the same store plots the same requests as the first
C10_SampleCappedAndRepeatable ==
    /\ F08 \in SavedNow =>
          LET rows == artifacts[F08].rows
              n == Len(Located)
          IN  /\ \A k \in 1..Len(rows) :
                    /\ rows[k].idx \in 0..(n - 1)
                    /\ rows[k].latitude = Located[rows[k].idx + 1].latitude
                    /\ rows[k].longitude = Located[rows[k].idx + 1].longitude
                    /\ \A l \in 1..Len(rows) : rows[l].idx = rows[k].idx => l = k
              /\ n > max_points => Len(rows) = max_points
              /\ n <= max_points => rows = GeoQuery(table)
    /\ (run > 1 /\ F08 \in SavedNow) => artifacts[F08] = firstRun[F08]

\* a second run has sampled from more located requests than max_points
C10_Witness ==
    /\ run = 2
    /\ pc = "done"
    /\ F08 \in SavedNow
    /\ Len(Located) > max_points

=============================================================================
